---- MODULE Spec2Model ----
(***************************************************************************)
(* readableruntime: the branch-aware SDK PR mapper, as documented in       *)
(* docs/COMPREHENSIVE_SDK_MAPPER_DOCUMENTATION.md (src/unnamed/part_000),  *)
(* docs/SDK_MAPPER_DECISION_LOGIC.md and the mapper's specification, and   *)
(* the web page that shows its results (src/docs/js/app.js).               *)
(*                                                                         *)
(* The mapper is an offline batch pass.  Each engine is modelled as its    *)
(* own specification over a source snapshot drawn in its Init:             *)
(*   SpecAssign   _build_pr_to_releases_mapping                            *)
(*   SpecBackport the backport_mapping / original_to_backports writes      *)
(*   SpecBranch   analyze_release_branches                                 *)
(*   SpecFallback analyze_release_branches without a branch point          *)
(*   SpecMatch    _find_best_sdk_match                                     *)
(*   SpecExtract  _extract_backport_info                                   *)
(*   SpecTags     the build of the SDK tag database, with retries          *)
(*   SpecCache    fetch workers writing pr_cache                           *)
(*   SpecRun      run_complete_analysis: validation and the output files   *)
(* The page is event-driven; its async functions are cut at their awaits:  *)
(*   SpecList     loadSDKPRsForRelease                                     *)
(*   SpecPage     init, loadSDKMappings, loadRelease, hashchange           *)
(*   SpecSearch   the PR search modal                                      *)
(*   SpecResolve  searchSDKPR with the mappings loaded                     *)
(***************************************************************************)
EXTENDS Integers, Sequences, FiniteSets, TLC

\* ---------------------------------------------------------------- bounds
MaxPR == 2
MaxRel == 2
MaxDate == 2
MaxLinkPR == 5
MaxTag == 2
MaxTextLen == 2
MaxAttempts == 2
MaxWorkers == 2
\* calls of loadRelease started, and calls of searchSDKPR awaiting a fetch
MaxLoads == 2

PRs == 1..MaxPR
Dates == 1..MaxDate
Branches == {"stable2409", "stable2412"}
RuntimeTags == 1..MaxRel
LinkPRs == 1..MaxLinkPR
\* SDK tags, numbered in the lexicographic order of their names
SdkTags == 1..MaxTag
TrackedPackages == {"polkadot-primitives", "sp-runtime", "frame-support"}

VARIABLES
  \* source snapshot read by the PR assignment
  runtime_mappings,   \* runtime tag -> [sdk_date, sdk_branch], in dict order
  merged_at,          \* pr_cache[pr].merged_at
  branch_prs,         \* branch_info[branch].prs
  original_pr,        \* pr_cache[pr].original_pr, 0 when the PR is no backport
  \* state of _build_pr_to_releases_mapping
  phase,              \* "start" | "loop" | "done" | "idle"
  sorted_releases,    \* the runtime tags in processing order
  next_idx,           \* position of the next release to process
  assigned_prs,       \* the seen-set
  pr_to_releases,     \* pr -> list of runtime tags it is assigned to
  \* the backport index
  backport_mapping,       \* backport PR -> original PR
  original_to_backports,  \* original PR -> list of backports
  \* the branch analysis
  github_prs,         \* merged PRs as the search API returns them
  branch_info,        \* branch -> analysis result
  \* the runtime-to-SDK matching
  sdk_tags,           \* SDK tag -> [date, package_versions]
  runtime_match,      \* the runtime release being matched and its SDK tag
  \* the backport extraction
  pr_title,           \* the PR's title, as a list of tokens
  pr_body,            \* the PR's body, as a list of tokens
  backport_info,      \* what _extract_backport_info returned for the PR
  \* the build of the SDK tag database
  manifests,          \* SDK tag -> version its Cargo.toml files pin
  fetch,              \* the manifest read in progress and the attempts made
  warnings,           \* the (tag, package) reads that ended without a version
  \* the run as a whole
  run_phase,          \* where run_complete_analysis stands
  output_files,       \* the snapshot each output file holds
  \* the branch-point fallback
  branch_tags,        \* branch -> dates of the tags known on it
  \* the cache of fetched entities
  pr_cache,           \* PR number -> cached PR details
  workers,            \* fetch worker -> what it is doing
  \* the web page (docs/js/app.js)
  releases,           \* state.releases, as the tag names listed
  currentRelease,     \* state.currentRelease
  hash,               \* window.location.hash without the '#'
  releaseContent,     \* what the releaseContent panel shows
  sdkPRList,          \* what the sdkPRList element shows
  sdkMappings,        \* the sdkMappings global
  calls,              \* the async function calls started, in start order
  events,             \* the hashchange events queued, oldest first
  modalShown,         \* prSearchModal has the class 'show'
  prSearchResults,    \* what the prSearchResults element shows
  sdkPRInput,         \* the value of the search input
  searchDisabled      \* searchSDKPRBtn.disabled

assignVars == <<runtime_mappings, merged_at, branch_prs, original_pr, phase,
                sorted_releases, next_idx, assigned_prs, pr_to_releases>>

backportVars == <<backport_mapping, original_to_backports>>

branchVars == <<github_prs, branch_info>>

matchVars == <<sdk_tags, runtime_match>>

extractVars == <<pr_title, pr_body, backport_info>>

tagVars == <<manifests, fetch, warnings>>

runVars == <<run_phase, output_files>>

auxVars == <<extractVars, tagVars, runVars>>

cacheVars == <<pr_cache, workers>>

uiVars == <<releases, currentRelease, hash, releaseContent, sdkPRList,
           sdkMappings, calls, events, modalShown, prSearchResults, sdkPRInput,
           searchDisabled>>

lateVars == <<branch_tags, cacheVars, uiVars>>

\* Everything but the web page.
engineVars == <<assignVars, backportVars, branchVars, matchVars, auxVars,
               branch_tags, cacheVars>>

vars == <<assignVars, backportVars, branchVars, matchVars, auxVars, lateVars>>

\* ------------------------------------------------------------ helpers
Range(s) == {s[i] : i \in DOMAIN s}

Min(S) == CHOOSE x \in S : \A y \in S : x <= y

\* The backport extraction at rest.
ExtractIdle ==
  /\ pr_title = <<>>
  /\ pr_body = <<>>
  /\ backport_info = <<>>

\* The build of the tag database at rest.
TagsIdle ==
  /\ manifests = <<>>
  /\ fetch = <<>>
  /\ warnings = {}

\* No run in progress and no output file looked at.
RunIdle ==
  /\ run_phase = "idle"
  /\ output_files = <<>>

\* No tag list looked at for a branch point.
FallbackIdle == branch_tags = <<>>

\* No fetch worker started and no cache opened.
CacheIdle ==
  /\ pr_cache = <<>>
  /\ workers = <<>>

\* The web page not opened.
PageIdle ==
  /\ releases = {}
  /\ currentRelease = <<>>
  /\ hash = <<>>
  /\ releaseContent = <<>>
  /\ sdkPRList = <<>>
  /\ sdkMappings = <<>>
  /\ calls = <<>>
  /\ events = <<>>
  /\ modalShown = FALSE
  /\ prSearchResults = <<>>
  /\ sdkPRInput = <<>>
  /\ searchDisabled = FALSE

LateIdle == FallbackIdle /\ CacheIdle /\ PageIdle

\* ------------------------------------------------- PR assignment engine

\* An insertion that puts a release before those of equal sdk_date.
RECURSIVE InsertByDateBeforeEquals(_, _, _)
InsertByDateBeforeEquals(s, r, rm) ==
  IF s = <<>> THEN <<r>>
  ELSE IF rm[s[Len(s)]].sdk_date < rm[r].sdk_date
       THEN Append(s, r)
       ELSE Append(InsertByDateBeforeEquals(SubSeq(s, 1, Len(s) - 1), r, rm), s[Len(s)])

\* sorted(runtime_mappings.items(), key=lambda x: x[1]['sdk_date']):
\* a stable sort, so releases with equal sdk_date keep their dict order.
RECURSIVE InsertByDate(_, _, _)
InsertByDate(s, r, rm) ==
  IF s = <<>> THEN <<r>>
  ELSE IF rm[s[Len(s)]].sdk_date <= rm[r].sdk_date
       THEN Append(s, r)
       ELSE Append(InsertByDate(SubSeq(s, 1, Len(s) - 1), r, rm), s[Len(s)])

RECURSIVE SortPrefix(_, _)
SortPrefix(rm, n) ==
  IF n = 0 THEN <<>> ELSE InsertByDate(SortPrefix(rm, n - 1), n, rm)

\* The releases left in dict order, the sort forgotten.
SortByDictOrder(rm) == [i \in 1..Len(rm) |-> i]

\* sorted_releases: the runtime tags by ascending sdk_date.
SortBySdkDate(rm) == SortPrefix(rm, Len(rm))

\* pr_merged_before_sdk_tag: merged no later than the matched SDK tag's date.
pr_merged_before_sdk_tag(pr, r) == merged_at[pr] <= runtime_mappings[r].sdk_date

\* The inner loop without the seen-set test.
NewPRsNoSeenSet(r, assigned) ==
  {pr \in branch_prs[runtime_mappings[r].sdk_branch] :
     pr_merged_before_sdk_tag(pr, r)}

\* The inner loop without the merge-date test.
NewPRsNoDateFilter(r, assigned) ==
  {pr \in branch_prs[runtime_mappings[r].sdk_branch] : pr \notin assigned}

\* The inner loop passing over a backport whose original is already assigned.
NewPRsSkipBackports(r, assigned) ==
  {pr \in branch_prs[runtime_mappings[r].sdk_branch] :
     /\ pr \notin assigned
     /\ pr_merged_before_sdk_tag(pr, r)
     /\ ~(original_pr[pr] # 0 /\ original_pr[pr] \in assigned)}

\* The PRs the inner loop assigns to release r: those of the release's SDK
\* branch that are not yet assigned and were merged before the SDK tag.
NewPRs(r, assigned) ==
  {pr \in branch_prs[runtime_mappings[r].sdk_branch] :
     pr \notin assigned /\ pr_merged_before_sdk_tag(pr, r)}

\* assign_pr_to_release for every PR the inner loop selects.
AssignRelease(map, assigned, r) ==
  LET new == NewPRs(r, assigned) IN
    [pr \in PRs |-> IF pr \in new THEN Append(map[pr], r) ELSE map[pr]]

EmptyMapping == [pr \in PRs |-> <<>>]

\* The whole loop over a processing order, as a fold: [map, assigned].
RECURSIVE RunLoop(_, _)
RunLoop(order, n) ==
  IF n = 0 THEN [map |-> EmptyMapping, assigned |-> {}]
  ELSE LET prev == RunLoop(order, n - 1)
           r == order[n]
       IN [map |-> AssignRelease(prev.map, prev.assigned, r),
           assigned |-> prev.assigned \cup NewPRs(r, prev.assigned)]

BuildMapping(order) == RunLoop(order, Len(order)).map

\* The backport links of the snapshot.  The assignment loop never reads them
\* and treats PR numbers as opaque, so one shape stands for the others: PR 1
\* is an original and every other PR is a backport of it.
BackportLinks == [pr \in PRs |-> IF pr = 1 THEN 0 ELSE 1]

\* The snapshot the assignment starts from.  The PRs are those discovered on
\* the branches, so every PR is in the PR set of at least one branch.
InitAssign ==
  /\ runtime_mappings \in [RuntimeTags -> [sdk_date : Dates, sdk_branch : Branches]]
  /\ merged_at \in [PRs -> Dates]
  /\ branch_prs \in {f \in [Branches -> SUBSET PRs] : UNION Range(f) = PRs}
  /\ original_pr = BackportLinks
  /\ phase = "start"
  /\ sorted_releases = <<>>
  /\ next_idx = 1
  /\ assigned_prs = {}
  /\ pr_to_releases = EmptyMapping
  /\ backport_mapping = <<>>
  /\ original_to_backports = <<>>
  /\ github_prs = <<>>
  /\ branch_info = <<>>
  /\ sdk_tags = <<>>
  /\ runtime_match = <<>>
  /\ ExtractIdle
  /\ TagsIdle
  /\ RunIdle
  /\ LateIdle

\* sorted_releases = sorted(...); assigned_prs = set()
SortReleases ==
  /\ phase = "start"
  /\ sorted_releases' = SortBySdkDate(runtime_mappings)
  /\ phase' = "loop"
  /\ UNCHANGED <<runtime_mappings, merged_at, branch_prs, original_pr,
                 next_idx, assigned_prs, pr_to_releases>>
  /\ UNCHANGED <<backportVars, branchVars, matchVars, auxVars>>
  /\ UNCHANGED lateVars

\* One iteration of "for runtime_tag, info in sorted_releases".
ProcessRelease ==
  /\ phase = "loop"
  /\ next_idx <= Len(sorted_releases)
  /\ LET r == sorted_releases[next_idx] IN
       /\ pr_to_releases' = AssignRelease(pr_to_releases, assigned_prs, r)
       /\ assigned_prs' = assigned_prs \cup NewPRs(r, assigned_prs)
  /\ next_idx' = next_idx + 1
  /\ UNCHANGED <<runtime_mappings, merged_at, branch_prs, original_pr,
                 phase, sorted_releases>>
  /\ UNCHANGED <<backportVars, branchVars, matchVars, auxVars>>
  /\ UNCHANGED lateVars

\* The loop is exhausted: the mapping is returned.
FinishAssign ==
  /\ phase = "loop"
  /\ next_idx > Len(sorted_releases)
  /\ phase' = "done"
  /\ UNCHANGED <<runtime_mappings, merged_at, branch_prs, original_pr,
                 sorted_releases, next_idx, assigned_prs, pr_to_releases>>
  /\ UNCHANGED <<backportVars, branchVars, matchVars, auxVars>>
  /\ UNCHANGED lateVars

NextAssign == SortReleases \/ ProcessRelease \/ FinishAssign

SpecAssign == InitAssign /\ [][NextAssign]_vars

\* ------------------------------------------- PR assignment: properties

SdkDate(r) == runtime_mappings[r].sdk_date

SdkBranch(r) == runtime_mappings[r].sdk_branch

\* The releases a PR could appear in: its branch carries the PR and the PR
\* was merged no later than the release's SDK tag.
Eligible(pr) ==
  {r \in RuntimeTags : pr \in branch_prs[SdkBranch(r)] /\ merged_at[pr] <= SdkDate(r)}

\* The earliest eligible release: lowest SDK tag date, dict order among equals.
FirstAppearance(pr) ==
  LET eligible == Eligible(pr) IN
    CHOOSE r \in eligible :
      \A q \in eligible :
        SdkDate(r) < SdkDate(q) \/ (SdkDate(r) = SdkDate(q) /\ r <= q)

Expected(pr) == IF Eligible(pr) = {} THEN <<>> ELSE <<FirstAppearance(pr)>>

\* C1: after any number of processed releases every PR is in the assignment
\* list of at most one release.
C1_AtMostOneRelease ==
  \A pr \in PRs : Len(pr_to_releases[pr]) <= 1

\* C1 witness: the run is over and a PR that two releases could both have
\* taken is assigned once.
C1_Witness ==
  /\ phase = "done"
  /\ \E pr \in PRs : Cardinality(Eligible(pr)) >= 2 /\ Len(pr_to_releases[pr]) = 1

\* C2: once release R is processed, every PR of R's branch merged before R's
\* SDK tag date (or exactly at it) is assigned to R or to a release processed
\* before R whose tag date is not later than R's, and to no release after R.
C2_NeverLaterRelease ==
  \A i \in 1..(next_idx - 1) :
    LET r == sorted_releases[i] IN
      \A pr \in branch_prs[SdkBranch(r)] :
        merged_at[pr] <= SdkDate(r) =>
          /\ pr_to_releases[pr] # <<>>
          /\ \A q \in Range(pr_to_releases[pr]) :
               /\ \E j \in 1..i : sorted_releases[j] = q
               /\ SdkDate(q) <= SdkDate(r)

\* C2 witness: a PR merged before the tag date of release q, and eligible for
\* the earlier release r as well, sits on r after both were processed.
C2_Witness ==
  /\ phase = "done"
  /\ \E pr \in PRs : \E r, q \in Eligible(pr) :
       /\ SdkDate(r) < SdkDate(q)
       /\ merged_at[pr] < SdkDate(q)
       /\ next_idx > Len(sorted_releases)
       /\ pr_to_releases[pr] = <<r>>

\* C3: every assignment is to a release whose SDK branch carries the PR and
\* whose SDK tag is not older than the PR's merge.
C3_AssignedOnlyWhenEligible ==
  \A pr \in PRs : \A r \in Range(pr_to_releases[pr]) :
    /\ pr \in branch_prs[SdkBranch(r)]
    /\ merged_at[pr] <= SdkDate(r)

\* C3 witness: a PR of a release's branch merged after that release's tag is
\* left out of it while another PR is assigned to it.
C3_Witness ==
  /\ phase = "done"
  /\ \E r \in RuntimeTags : \E pr, other \in branch_prs[SdkBranch(r)] :
       /\ merged_at[pr] > SdkDate(r)
       /\ r \notin Range(pr_to_releases[pr])
       /\ pr_to_releases[other] = <<r>>

\* All processing orders of the releases.
Orders == Permutations(RuntimeTags)

\* The first release of a processing order that could take the PR.
FirstIn(order, pr) ==
  LET eligible == Eligible(pr) IN
    order[Min({i \in DOMAIN order : order[i] \in eligible})]

\* Two releases processed out of tag-date order that share an attributable PR.
SharedOutOfOrder(order) ==
  \E i, j \in DOMAIN order :
    /\ i < j
    /\ SdkDate(order[i]) > SdkDate(order[j])
    /\ branch_prs[SdkBranch(order[i])] \cap branch_prs[SdkBranch(order[j])] # {}

\* C4 as stated: whenever releases that share an attributable PR are processed
\* out of ascending tag-date order, the mapping differs from the chronological
\* one.
C4_AnyReorderingDiffers ==
  phase = "done" =>
    \A order \in Orders :
      SharedOutOfOrder(order) => BuildMapping(order) # pr_to_releases

\* C4 amended: when the first release an order reaches among those eligible for
\* a PR (on its branch, merged no later than the tag) has a later tag date than
\* the earliest eligible release, that order puts the PR on a release other
\* than the earliest one, so its mapping differs from the chronological one.
C4_EligibleReorderingDiffers ==
  phase = "done" =>
    \A pr \in PRs :
      Eligible(pr) # {} =>
        LET first == FirstAppearance(pr) IN
          \A order \in Orders :
            SdkDate(FirstIn(order, pr)) > SdkDate(first) =>
              LET other == BuildMapping(order) IN
                /\ other # pr_to_releases
                /\ other[pr] # <<first>>
                /\ pr_to_releases[pr] = <<first>>

\* C4 witness: a PR eligible for an earlier and a later release went to the
\* earlier one, and some other order puts it on the later one.
C4_Witness ==
  /\ phase = "done"
  /\ \E pr \in PRs : \E r, q \in Eligible(pr) :
       /\ SdkDate(r) < SdkDate(q)
       /\ pr_to_releases[pr] = <<r>>
       /\ \E order \in Orders : BuildMapping(order)[pr] = <<q>>

\* C5: a backport and its original are each assigned by the first-appearance
\* rule alone: each sits on its own earliest eligible release (or on none when
\* it has none), whatever happened to the other.
C5_BackportAssignedIndependently ==
  phase = "done" =>
    \A b \in PRs :
      original_pr[b] # 0 =>
        /\ pr_to_releases[b] = Expected(b)
        /\ pr_to_releases[original_pr[b]] = Expected(original_pr[b])

\* C5 witness: the original was assigned to an earlier release and its
\* backport is assigned to a later one.
C5_Witness ==
  /\ phase = "done"
  /\ \E b \in PRs : \E r, q \in RuntimeTags :
       /\ original_pr[b] # 0
       /\ pr_to_releases[original_pr[b]] = <<r>>
       /\ pr_to_releases[b] = <<q>>
       /\ SdkDate(r) < SdkDate(q)

\* sorted(runtime_mappings.items(), ...) when the items come out of the dict in
\* the given enumeration order: the first n of them, sorted by sdk_date.
RECURSIVE SortEnumerated(_, _, _)
SortEnumerated(rm, order, n) ==
  IF n = 0 THEN <<>>
  ELSE InsertByDate(SortEnumerated(rm, order, n - 1), order[n], rm)

\* The mapping a run builds when the releases are enumerated in that order.
MappingEnumerating(order) ==
  BuildMapping(SortEnumerated(runtime_mappings, order, Len(order)))

\* Of the releases a PR could appear in, the one with the earliest SDK tag
\* date; among equally dated ones, the one enumerated first.
EarliestEnumerated(order, pr) ==
  LET eligible == Eligible(pr)
      pos == {i \in DOMAIN order : order[i] \in eligible}
  IN order[CHOOSE i \in pos :
             \A j \in pos :
               \/ SdkDate(order[i]) < SdkDate(order[j])
               \/ (SdkDate(order[i]) = SdkDate(order[j]) /\ i <= j)]

\* C15 as stated: a run over the same snapshot yields the same mapping whatever
\* the order in which the releases are enumerated.
C15_SameMappingInEveryEnumeration ==
  phase = "done" =>
    \A order \in Orders : MappingEnumerating(order) = pr_to_releases

\* C15 amended: a second run over the same snapshot, the releases enumerated as
\* before, yields the mapping of the first; and in every enumeration order each
\* PR lands on its earliest-dated eligible release, the one enumerated first
\* among equally dated ones.
C15_SameEnumerationSameMapping ==
  phase = "done" =>
    /\ BuildMapping(SortBySdkDate(runtime_mappings)) = pr_to_releases
    /\ \A order \in Orders :
         LET again == MappingEnumerating(order) IN
           \A pr \in PRs :
             again[pr] = IF Eligible(pr) = {} THEN <<>>
                         ELSE <<EarliestEnumerated(order, pr)>>

\* C15 witness: two releases with equal SDK tag dates share a PR both could
\* take; the run gave it to the one enumerated first, and a run enumerating
\* them the other way round gives it to the other.
C15_Witness ==
  /\ phase = "done"
  /\ \E pr \in PRs : \E r, q \in Eligible(pr) :
       /\ r < q
       /\ SdkDate(r) = SdkDate(q)
       /\ pr_to_releases[pr] = <<r>>
       /\ \E order \in Orders : MappingEnumerating(order)[pr] = <<q>>

\* ------------------------------------------------------ backport index

\* The assignment engine at rest, for the specifications of the other engines.
AssignIdle ==
  /\ runtime_mappings = <<>>
  /\ merged_at = <<>>
  /\ branch_prs = <<>>
  /\ original_pr = <<>>
  /\ phase = "idle"
  /\ sorted_releases = <<>>
  /\ next_idx = 1
  /\ assigned_prs = {}
  /\ pr_to_releases = <<>>

\* Backports of backports collapse to the root original: follow the forward
\* links from the named PR until a PR that is no backport.  A backport names
\* an earlier PR, so the walk ends.
RECURSIVE RootOriginal(_, _)
RootOriginal(fwd, o) ==
  IF o \in DOMAIN fwd THEN RootOriginal(fwd, fwd[o]) ELSE o

\* backport_mapping[b] = o
ForwardWrite(fwd, b, o) ==
  [x \in DOMAIN fwd \cup {b} |-> IF x = b THEN o ELSE fwd[x]]

\* A write that replaces the original's list instead of extending it.
InverseWriteOverwrite(inv, b, o) ==
  [x \in DOMAIN inv \cup {o} |-> IF x = o THEN <<b>> ELSE inv[x]]

\* original_to_backports[o].append(b), the list created on first use
InverseWrite(inv, b, o) ==
  [x \in DOMAIN inv \cup {o} |->
     IF x = o THEN Append(IF o \in DOMAIN inv THEN inv[o] ELSE <<>>, b)
     ELSE inv[x]]

InitBackport ==
  /\ AssignIdle
  /\ backport_mapping = <<>>
  /\ original_to_backports = <<>>
  /\ github_prs = <<>>
  /\ branch_info = <<>>
  /\ sdk_tags = <<>>
  /\ runtime_match = <<>>
  /\ ExtractIdle
  /\ TagsIdle
  /\ RunIdle
  /\ LateIdle

\* PR b is read from the API and its text names PR o as the PR it backports.
\* The reference is attached once per PR; both maps are written together.
RecordBackport(b, o) ==
  /\ b \notin DOMAIN backport_mapping
  /\ o < b
  /\ LET root == RootOriginal(backport_mapping, o) IN
       /\ backport_mapping' = ForwardWrite(backport_mapping, b, root)
       /\ original_to_backports' = InverseWrite(original_to_backports, b, root)
  /\ UNCHANGED <<assignVars, branchVars, matchVars, auxVars>>
  /\ UNCHANGED lateVars

NextBackport == \E b, o \in LinkPRs : RecordBackport(b, o)

SpecBackport == InitBackport /\ [][NextBackport]_vars

Occurrences(list, x) == Cardinality({i \in DOMAIN list : list[i] = x})

\* C6: original_to_backports is exactly the transpose of backport_mapping:
\* each backport is listed once under its original, and every listed PR has
\* that original as its forward entry.
C6_InverseIsTranspose ==
  /\ \A b \in DOMAIN backport_mapping :
       /\ backport_mapping[b] \in DOMAIN original_to_backports
       /\ Occurrences(original_to_backports[backport_mapping[b]], b) = 1
  /\ \A o \in DOMAIN original_to_backports :
       \A i \in DOMAIN original_to_backports[o] :
         /\ original_to_backports[o][i] \in DOMAIN backport_mapping
         /\ backport_mapping[original_to_backports[o][i]] = o

\* C6 witness: one original with two backports and another original besides.
C6_Witness ==
  \E o, p \in DOMAIN original_to_backports :
    o # p /\ Len(original_to_backports[o]) = 2

MergedPR == [base : {"master"} \cup Branches,
             merged_at : Dates,
             title_branch : {"none"} \cup Branches]

\* Direct PRs found by the base-branch query alone.
DirectPRsByBaseOnly(branch) ==
  {pr \in PRs : github_prs[pr].base = branch}

\* Direct PRs: "base:stable2503" or "[stable2503]" in the title.
DirectPRs(branch) ==
  {pr \in PRs : github_prs[pr].base = branch \/ github_prs[pr].title_branch = branch}

\* Master PRs found with "merged:<branch_date", the branch-point instant left out.
MasterPRsStrictlyBefore(branch_date) ==
  {pr \in PRs : github_prs[pr].base = "master" /\ github_prs[pr].merged_at < branch_date}

\* Master PRs at the branch point: "base:master merged:<=branch_date".
MasterPRsAtBranchPoint(branch_date) ==
  {pr \in PRs : github_prs[pr].base = "master" /\ github_prs[pr].merged_at <= branch_date}

\* The entry of a branch the analysis has not reached yet.
NotAnalysed ==
  [analysed |-> FALSE, created_date |-> 0, direct_prs |-> {}, master_prs |-> {},
   prs |-> {}, merge_base_date |-> 0, approximate |-> FALSE]

InitBranch ==
  /\ AssignIdle
  /\ backport_mapping = <<>>
  /\ original_to_backports = <<>>
  /\ github_prs \in [PRs -> MergedPR]
  /\ branch_info = [b \in Branches |-> NotAnalysed]
  /\ sdk_tags = <<>>
  /\ runtime_match = <<>>
  /\ ExtractIdle
  /\ TagsIdle
  /\ RunIdle
  /\ LateIdle

\* analyze_release_branches, one branch: the compare API gives the merge-base
\* date, then the direct PRs and the master PRs up to the branch point are
\* collected into the branch's PR set.
AnalyzeBranch(branch, branch_date) ==
  /\ ~branch_info[branch].analysed
  /\ branch_info' = [branch_info EXCEPT ![branch] =
       [analysed |-> TRUE,
        created_date |-> branch_date,
        direct_prs |-> DirectPRs(branch),
        master_prs |-> MasterPRsAtBranchPoint(branch_date),
        prs |-> DirectPRs(branch) \cup MasterPRsAtBranchPoint(branch_date),
        merge_base_date |-> branch_date,
        approximate |-> FALSE]]
  /\ UNCHANGED <<assignVars, backportVars, github_prs, matchVars, auxVars>>
  /\ UNCHANGED lateVars

NextBranch == \E branch \in Branches : \E d \in Dates : AnalyzeBranch(branch, d)

SpecBranch == InitBranch /\ [][NextBranch]_vars

Analysed == {b \in Branches : branch_info[b].analysed}

\* C8 as stated: the direct PRs and the trunk-inherited PRs of every analysed
\* branch are disjoint.
C8_DirectAndTrunkDisjoint ==
  \A b \in Analysed :
    branch_info[b].direct_prs \cap branch_info[b].master_prs = {}

TagDateSets == SUBSET Dates \ {{}}

\* A PR merged to master, as the search returns it.
MasterPR == [base : {"master"}, merged_at : Dates, title_branch : {"none"}]

\* The date of the latest tag known on the branch.
LatestTagDate(branch) ==
  CHOOSE d \in branch_tags[branch] : \A e \in branch_tags[branch] : e <= d

\* "date range method using earliest tag": the date of the first tag known on
\* the branch.
EarliestTagDate(branch) == Min(branch_tags[branch])

\* The branches with their tags and the PRs merged to master; the direct PRs
\* are the subject of SpecBranch and left out here.
InitFallback ==
  /\ AssignIdle
  /\ backport_mapping = <<>>
  /\ original_to_backports = <<>>
  /\ github_prs \in [PRs -> MasterPR]
  /\ branch_info = [b \in Branches |-> NotAnalysed]
  /\ sdk_tags = <<>>
  /\ runtime_match = <<>>
  /\ ExtractIdle
  /\ TagsIdle
  /\ RunIdle
  /\ branch_tags \in [Branches -> TagDateSets]
  /\ CacheIdle
  /\ PageIdle

\* analyze_release_branches, one branch, when _get_branch_point fails (branch
\* deleted, compare request failed): the earliest tag's date stands in for the
\* branch point, the result is marked approximate, and the analysis goes on as
\* with an exact branch point.
AnalyzeBranchFallback(branch) ==
  /\ ~branch_info[branch].analysed
  /\ branch_info' = [branch_info EXCEPT ![branch] =
       [analysed |-> TRUE,
        created_date |-> EarliestTagDate(branch),
        direct_prs |-> DirectPRs(branch),
        master_prs |-> MasterPRsAtBranchPoint(EarliestTagDate(branch)),
        prs |-> DirectPRs(branch)
                  \cup MasterPRsAtBranchPoint(EarliestTagDate(branch)),
        merge_base_date |-> 0,
        approximate |-> TRUE]]
  /\ UNCHANGED <<assignVars, backportVars, github_prs, matchVars, auxVars>>
  /\ UNCHANGED lateVars

NextFallback ==
  \/ \E branch \in Branches : \E d \in Dates : AnalyzeBranch(branch, d)
  \/ \E branch \in Branches : AnalyzeBranchFallback(branch)

SpecFallback == InitFallback /\ [][NextFallback]_vars

TagVersions == {"none", "15.0.0"}

RuntimeVersions == {"none", "15.0.0"}

\* package_to_tags["package:version"]: the reverse index of the tag database.
PackageToTags(package, version) ==
  {t \in SdkTags : sdk_tags[t].package_versions[package] = version}

\* The count taking a package absent on both sides for a shared version.
MatchCountWithAbsent(t, runtime_pkgs) ==
  Cardinality({p \in TrackedPackages : t \in PackageToTags(p, runtime_pkgs[p])})

\* Number of tracked packages whose runtime version the tag shares.
MatchCount(t, runtime_pkgs) ==
  Cardinality({p \in TrackedPackages :
                 runtime_pkgs[p] # "none" /\ t \in PackageToTags(p, runtime_pkgs[p])})

\* Lexicographical order: the greatest tag name.
LatestByName(tags) == CHOOSE t \in tags : \A u \in tags : u <= t

\* Chronological proximity decided by the tag name alone, the dates unread.
ClosestBeforeByName(tied, runtime_date) == LatestByName(tied)

\* The fallback taking the least tag name instead of the greatest.
ClosestBeforeOrLeastName(tied, runtime_date) ==
  LET valid == {t \in tied : sdk_tags[t].date <= runtime_date} IN
    IF valid = {} THEN CHOOSE t \in tied : \A u \in tied : t <= u
    ELSE LatestByName({t \in valid : \A u \in valid : sdk_tags[u].date <= sdk_tags[t].date})

\* Chronological proximity among tied tags: the closest tag not after the
\* runtime release; with no such tag, the latest tag name.
ClosestBefore(tied, runtime_date) ==
  LET valid == {t \in tied : sdk_tags[t].date <= runtime_date} IN
    IF valid = {} THEN LatestByName(tied)
    ELSE LatestByName({t \in valid : \A u \in valid : sdk_tags[u].date <= sdk_tags[t].date})

\* _find_best_sdk_match: 0 stands for None.
FindBestSdkMatch(runtime_pkgs, runtime_date) ==
  LET candidates == {t \in SdkTags : MatchCount(t, runtime_pkgs) > 0} IN
    IF candidates = {} THEN 0
    ELSE IF Cardinality(candidates) = 1 THEN CHOOSE t \in candidates : TRUE
    ELSE LET best == {t \in candidates :
                        \A u \in candidates :
                          MatchCount(u, runtime_pkgs) <= MatchCount(t, runtime_pkgs)}
         IN IF Cardinality(best) = 1 THEN CHOOSE t \in best : TRUE
            ELSE ClosestBefore(best, runtime_date)

NotMatched ==
  [done |-> FALSE, packages |-> [p \in TrackedPackages |-> "none"], date |-> 0,
   sdk_version |-> 0]

\* The branch a tag belongs to, read off the prefix of its name.
TagBranch(t) == IF t = 1 THEN "stable2409" ELSE "stable2412"

\* The runtime_mappings left by mapping one release: a matched release enters
\* with its SDK tag's date and branch, an unmatched one does not enter and so
\* is never visited by the PR assignment.
RecordMapping(tag) ==
  IF tag = 0 THEN <<>>
  ELSE <<[sdk_date |-> sdk_tags[tag].date, sdk_branch |-> TagBranch(tag)]>>

\* The matching starts from the tag database and the analysed branches; the
\* PRs of both branches were all merged at the first date.
InitMatch ==
  /\ runtime_mappings = <<>>
  /\ merged_at = [pr \in PRs |-> 1]
  /\ branch_prs = [b \in Branches |-> PRs]
  /\ original_pr = <<>>
  /\ phase = "idle"
  /\ sorted_releases = <<>>
  /\ next_idx = 1
  /\ assigned_prs = {}
  /\ pr_to_releases = <<>>
  /\ backport_mapping = <<>>
  /\ original_to_backports = <<>>
  /\ github_prs = <<>>
  /\ branch_info = <<>>
  /\ sdk_tags \in [SdkTags -> [date : Dates,
                               package_versions : [TrackedPackages -> TagVersions]]]
  /\ runtime_match = NotMatched
  /\ ExtractIdle
  /\ TagsIdle
  /\ RunIdle
  /\ LateIdle

\* map_runtime_releases, one runtime release: its Cargo.lock versions and its
\* release date are read and the best SDK tag is recorded for it.
MatchRuntime(runtime_pkgs, runtime_date) ==
  /\ ~runtime_match.done
  /\ LET tag == FindBestSdkMatch(runtime_pkgs, runtime_date) IN
       /\ runtime_match' = [done |-> TRUE, packages |-> runtime_pkgs,
                            date |-> runtime_date, sdk_version |-> tag]
       /\ runtime_mappings' = RecordMapping(tag)
  /\ UNCHANGED <<merged_at, branch_prs, original_pr, phase, sorted_releases,
                 next_idx, assigned_prs, pr_to_releases>>
  /\ UNCHANGED <<backportVars, branchVars, sdk_tags, auxVars>>
  /\ UNCHANGED lateVars

NextMatch ==
  \E runtime_pkgs \in [TrackedPackages -> RuntimeVersions] : \E d \in Dates :
    MatchRuntime(runtime_pkgs, d)

SpecMatch == InitMatch /\ [][NextMatch]_vars

\* C10 as stated: a matched SDK tag is never dated after the runtime release
\* it is matched to.
C10_MatchNeverLaterThanRelease ==
  (runtime_match.done /\ runtime_match.sdk_version # 0) =>
    sdk_tags[runtime_match.sdk_version].date <= runtime_match.date

\* Number of tracked (package, version) pairs of the recorded release that the
\* tag carries.
SharedPairs(t) ==
  Cardinality({p \in TrackedPackages :
                 /\ runtime_match.packages[p] # "none"
                 /\ sdk_tags[t].package_versions[p] = runtime_match.packages[p]})

\* The tags sharing the most tracked (package, version) pairs with the release.
RECURSIVE SharedPairsUpTo(_)
SharedPairsUpTo(n) ==
  IF n = 0 THEN <<>> ELSE Append(SharedPairsUpTo(n - 1), SharedPairs(n))

MaxCountTags ==
  LET count == SharedPairsUpTo(MaxTag) IN
    {t \in SdkTags : count[t] > 0 /\ \A u \in SdkTags : count[u] <= count[t]}

\* The maximum-count tags dated no later than the release.
ValidMaxCountTags ==
  {t \in MaxCountTags : sdk_tags[t].date <= runtime_match.date}

\* C11: a returned tag has the maximum match count of all tags, and when some
\* maximum-count tag is dated no later than the release, the returned tag is
\* one of those and none of them is dated after it.
C11_MaxCountThenClosestBefore ==
  (runtime_match.done /\ runtime_match.sdk_version # 0) =>
    LET got == runtime_match.sdk_version
        best == MaxCountTags
        valid == {t \in best : sdk_tags[t].date <= runtime_match.date}
    IN /\ got \in best
       /\ valid # {} =>
            /\ got \in valid
            /\ \A u \in valid : sdk_tags[u].date <= sdk_tags[got].date

\* C11 witness: two tags tie on the match count, both are dated no later than
\* the release, and the later-dated one is returned although its name is the
\* smaller one.
C11_Witness ==
  /\ runtime_match.done
  /\ \E t, u \in ValidMaxCountTags :
       /\ t < u
       /\ sdk_tags[t].date > sdk_tags[u].date
       /\ SharedPairs(t) >= 2
       /\ runtime_match.sdk_version = t

C13_NoMatchIsRecordedGap ==
  runtime_match.done =>
    /\ runtime_match.sdk_version = 0 <=> \A t \in SdkTags : SharedPairs(t) = 0
    /\ runtime_match.sdk_version = 0 =>
         \A pr \in PRs : BuildMapping(SortBySdkDate(runtime_mappings))[pr] = <<>>
    /\ runtime_match.sdk_version # 0 =>
         \A pr \in PRs : BuildMapping(SortBySdkDate(runtime_mappings))[pr] # <<>>
            <=> merged_at[pr] <= sdk_tags[runtime_match.sdk_version].date

\* C13 witness: the release pins a tracked package, no tag carries that
\* version, and the release is recorded without an SDK tag.
C13_Witness ==
  /\ runtime_match.done
  /\ runtime_match.sdk_version = 0
  /\ \E p \in TrackedPackages : runtime_match.packages[p] # "none"
  /\ \E t \in SdkTags : \E p \in TrackedPackages :
       sdk_tags[t].package_versions[p] # "none"

\* Score candidates by number of matching packages: the scores of the first n
\* tags, as a list indexed by tag.
RECURSIVE ScoreTags(_, _)
ScoreTags(n, runtime_pkgs) ==
  IF n = 0 THEN <<>>
  ELSE Append(ScoreTags(n - 1, runtime_pkgs), MatchCount(n, runtime_pkgs))

\* The candidates come out of the package_to_tags lists in some enumeration
\* order; the decision tree read as a comparison of two scored candidates:
\* more matching packages, then a date not after the release, then the later
\* such date, then the greater tag name.  This one leaves the names unread, so
\* of two candidates still tied the one enumerated first stays.
PreferredUnlessStillTied(t, u, score, runtime_date) ==
  LET vt == sdk_tags[t].date <= runtime_date
      vu == sdk_tags[u].date <= runtime_date
  IN IF score[t] # score[u] THEN score[t] > score[u]
     ELSE IF vt # vu THEN vt
     ELSE vt /\ sdk_tags[t].date > sdk_tags[u].date

\* Candidate t is preferred to candidate u.
Preferred(t, u, score, runtime_date) ==
  LET vt == sdk_tags[t].date <= runtime_date
      vu == sdk_tags[u].date <= runtime_date
  IN IF score[t] # score[u] THEN score[t] > score[u]
     ELSE IF vt # vu THEN vt
     ELSE IF vt /\ sdk_tags[t].date # sdk_tags[u].date
          THEN sdk_tags[t].date > sdk_tags[u].date
          ELSE t > u

\* The match computed by one pass over the scored tags in enumeration order,
\* the preferred candidate kept; 0 while no tag shares a package version.
RECURSIVE ScanTags(_, _, _, _)
ScanTags(order, n, score, runtime_date) ==
  IF n = 0 THEN 0
  ELSE LET kept == ScanTags(order, n - 1, score, runtime_date)
           t == order[n]
       IN IF score[t] = 0 THEN kept
          ELSE IF kept = 0 THEN t
          ELSE IF Preferred(t, kept, score, runtime_date) THEN t
          ELSE kept

\* All enumeration orders of the tags.
TagOrders == Permutations(SdkTags)

\* C14: whatever the order in which the tags are enumerated, the pass selects
\* the tag recorded for the release; in particular two tags with equal match
\* counts and equal dates resolve to the same tag in every order.
C14_TieResolvedInEveryOrder ==
  runtime_match.done =>
    LET score == ScoreTags(MaxTag, runtime_match.packages) IN
      \A order \in TagOrders :
        ScanTags(order, MaxTag, score, runtime_match.date) = runtime_match.sdk_version

\* C14 witness: two tags with the same match count and the same date, at the
\* same distance from the release, and one of them is the recorded match.
C14_Witness ==
  /\ runtime_match.done
  /\ \E t, u \in MaxCountTags :
       /\ t # u
       /\ sdk_tags[t].date = sdk_tags[u].date
       /\ runtime_match.sdk_version = u

\* ---------------------------------------------------- backport extraction

\* A PR text as the patterns see it: a list of tokens.  "[stable]" stands for
\* a bracketed branch tag such as "[stable2503]", "#1" and "#2" for PR
\* references, "word" for any other word.
Tokens == {"[stable]", "backport", "backports", "of", "(backport)", "#1", "#2", "word"}

\* The number a PR reference carries; 0 for a token that is no PR reference.
PRNumber(token) == IF token = "#1" THEN 1 ELSE IF token = "#2" THEN 2 ELSE 0

\* The texts of at most n tokens.
Texts(n) == UNION {[1..k -> Tokens] : k \in 0..n}

\* patterns: the ordered list; "#" is the group capturing the PR number.  The
\* first two are the two shapes of r'\[stable\d+\]\s*(?:backport\s*)?#(\d+)'.
Patterns ==
  << <<"[stable]", "backport", "#">>,
     <<"[stable]", "#">>,
     <<"backport", "#">>,
     <<"backport", "of", "#">>,
     <<"backports", "#">>,
     <<"#", "(backport)">> >>

\* The pattern matches the text from position i on.
MatchesAt(pattern, text, i) ==
  /\ i + Len(pattern) - 1 <= Len(text)
  /\ \A k \in DOMAIN pattern :
       IF pattern[k] = "#" THEN PRNumber(text[i + k - 1]) # 0
       ELSE text[i + k - 1] = pattern[k]

\* The number the pattern's group captures in a match at position i.
CaptureAt(pattern, text, i) ==
  PRNumber(text[i + (CHOOSE k \in DOMAIN pattern : pattern[k] = "#") - 1])

\* re.search(pattern, text): the capture of the leftmost match, 0 for None.
Search(pattern, text) ==
  LET hits == {i \in DOMAIN text : MatchesAt(pattern, text, i)} IN
    IF hits = {} THEN 0 ELSE CaptureAt(pattern, text, Min(hits))

\* The capture of the first pattern, from the k-th on, that matches the text.
RECURSIVE FirstMatchFrom(_, _)
FirstMatchFrom(k, text) ==
  IF k > Len(Patterns) THEN 0
  ELSE LET n == Search(Patterns[k], text) IN
         IF n # 0 THEN n ELSE FirstMatchFrom(k + 1, text)

\* The body searched before the title.
ExtractBodyFirst(title, body) ==
  LET n == FirstMatchFrom(1, body) IN
    IF n # 0 THEN n ELSE FirstMatchFrom(1, title)

\* Each pattern tried on the title and then on the body before the next one.
RECURSIVE ExtractPatternByPatternFrom(_, _, _)
ExtractPatternByPatternFrom(k, title, body) ==
  IF k > Len(Patterns) THEN 0
  ELSE LET n == Search(Patterns[k], title)
           m == Search(Patterns[k], body)
       IN IF n # 0 THEN n
          ELSE IF m # 0 THEN m
          ELSE ExtractPatternByPatternFrom(k + 1, title, body)

ExtractPatternByPattern(title, body) == ExtractPatternByPatternFrom(1, title, body)

\* _extract_backport_info(title, body): the patterns against the title first,
\* then against the body; 0 for None.
ExtractBackportInfo(title, body) ==
  LET n == FirstMatchFrom(1, title) IN
    IF n # 0 THEN n ELSE FirstMatchFrom(1, body)

NotExtracted == [done |-> FALSE, original_pr |-> 0]

InitExtract ==
  /\ AssignIdle
  /\ backport_mapping = <<>>
  /\ original_to_backports = <<>>
  /\ github_prs = <<>>
  /\ branch_info = <<>>
  /\ sdk_tags = <<>>
  /\ runtime_match = <<>>
  /\ pr_title \in Texts(MaxTextLen)
  /\ pr_body \in Texts(MaxTextLen)
  /\ backport_info = NotExtracted
  /\ TagsIdle
  /\ RunIdle
  /\ LateIdle

\* The PR is read and its title and body are searched for the original PR.
ExtractBackport ==
  /\ ~backport_info.done
  /\ backport_info' = [done |-> TRUE,
                       original_pr |-> ExtractBackportInfo(pr_title, pr_body)]
  /\ UNCHANGED <<assignVars, backportVars, branchVars, matchVars>>
  /\ UNCHANGED <<pr_title, pr_body, tagVars, runVars>>
  /\ UNCHANGED lateVars

NextExtract == ExtractBackport

SpecExtract == InitExtract /\ [][NextExtract]_vars

\* The patterns, by their place in the list, that match the text.
MatchingPatterns(text) == {k \in DOMAIN Patterns : Search(Patterns[k], text) # 0}

PackageOrder == <<"polkadot-primitives", "sp-runtime", "frame-support">>

\* The version a tag's Cargo.toml files pin for the tracked packages.
ManifestVersions == {"15.0.0", "16.0.0"}

NoVersions == [p \in TrackedPackages |-> "none"]

\* The read in progress: the tag, the place of the package in PackageOrder,
\* the failed attempts so far and the versions read for the tag so far.
FirstFetch(t) == [tag |-> t, pkg |-> 1, attempts |-> 0, versions |-> NoVersions]

\* A tag with a missing version left out of the database.
AddTagIfComplete(db, t, versions) ==
  IF \E p \in TrackedPackages : versions[p] = "none" THEN db
  ELSE [x \in DOMAIN db \cup {t} |->
          IF x = t THEN [date |-> 1, package_versions |-> versions] ELSE db[x]]

\* sdk_tags[tag] = {..., "package_versions": versions}
AddTag(db, t, versions) ==
  [x \in DOMAIN db \cup {t} |->
     IF x = t THEN [date |-> 1, package_versions |-> versions] ELSE db[x]]

\* One more failed attempt of the call in progress.
AttemptsAfterFailure(n) == n + 1

\* A call that is never given up.
ExhaustedNever(n) == FALSE

\* The attempts allowed for one call are used up.
Exhausted(n) == n >= MaxAttempts

InitTags ==
  /\ AssignIdle
  /\ backport_mapping = <<>>
  /\ original_to_backports = <<>>
  /\ github_prs = <<>>
  /\ branch_info = <<>>
  /\ sdk_tags = <<>>
  /\ runtime_match = <<>>
  /\ ExtractIdle
  /\ manifests \in [SdkTags -> ManifestVersions]
  /\ fetch = FirstFetch(1)
  /\ warnings = {}
  /\ RunIdle
  /\ LateIdle

\* The read in progress ends with the given version ("none" when it was given
\* up): the next package of the tag is read, or the tag enters the database
\* and the next tag is started.
FinishRead(version) ==
  LET versions == [fetch.versions EXCEPT ![PackageOrder[fetch.pkg]] = version] IN
    IF fetch.pkg < Len(PackageOrder)
    THEN /\ fetch' = [tag |-> fetch.tag, pkg |-> fetch.pkg + 1, attempts |-> 0,
                      versions |-> versions]
         /\ sdk_tags' = sdk_tags
    ELSE /\ fetch' = FirstFetch(fetch.tag + 1)
         /\ sdk_tags' = AddTag(sdk_tags, fetch.tag, versions)

\* The Cargo.toml is fetched and the version extracted.
ReadVersion ==
  /\ fetch.tag <= MaxTag
  /\ FinishRead(manifests[fetch.tag])
  /\ UNCHANGED <<manifests, warnings>>
  /\ UNCHANGED <<assignVars, backportVars, branchVars, runtime_match,
                 extractVars, runVars>>
  /\ UNCHANGED lateVars

\* The file is missing or cannot be parsed: version = None, a warning logged.
ReadFails ==
  /\ fetch.tag <= MaxTag
  /\ FinishRead("none")
  /\ warnings' = warnings \cup
       {[tag |-> fetch.tag, package |-> PackageOrder[fetch.pkg], gave_up |-> FALSE]}
  /\ UNCHANGED manifests
  /\ UNCHANGED <<assignVars, backportVars, branchVars, runtime_match,
                 extractVars, runVars>>
  /\ UNCHANGED lateVars

\* The request fails transiently (network error, rate limit) and attempts
\* remain: it is made again after the backoff.
RetryRead ==
  /\ fetch.tag <= MaxTag
  /\ ~Exhausted(AttemptsAfterFailure(fetch.attempts))
  /\ fetch' = [fetch EXCEPT !.attempts = AttemptsAfterFailure(fetch.attempts)]
  /\ UNCHANGED <<sdk_tags, manifests, warnings>>
  /\ UNCHANGED <<assignVars, backportVars, branchVars, runtime_match,
                 extractVars, runVars>>
  /\ UNCHANGED lateVars

\* The request fails transiently and no attempt remains: the version is
\* recorded as missing and the build goes on.
GiveUpRead ==
  /\ fetch.tag <= MaxTag
  /\ Exhausted(AttemptsAfterFailure(fetch.attempts))
  /\ FinishRead("none")
  /\ warnings' = warnings \cup
       {[tag |-> fetch.tag, package |-> PackageOrder[fetch.pkg], gave_up |-> TRUE]}
  /\ UNCHANGED manifests
  /\ UNCHANGED <<assignVars, backportVars, branchVars, runtime_match,
                 extractVars, runVars>>
  /\ UNCHANGED lateVars

NextTags == ReadVersion \/ ReadFails \/ RetryRead \/ GiveUpRead

SpecTags == InitTags /\ [][NextTags]_vars

\* The build under a scheduler that keeps taking its steps.
SpecTagsFair == SpecTags /\ WF_vars(NextTags)

\* The reads of a (tag, package) that ended without a version.
FailedReads == {<<w.tag, w.package>> : w \in warnings}

\* C17: every tag whose manifests have been gone through is in the database,
\* whatever reads failed; a package whose read failed has no version there, and
\* every other package of the tag has the version its manifest pins.
C17_FailedManifestKeepsTag ==
  /\ \A t \in SdkTags : t < fetch.tag => t \in DOMAIN sdk_tags
  /\ \A t \in DOMAIN sdk_tags : \A p \in TrackedPackages :
       sdk_tags[t].package_versions[p] =
         IF <<t, p>> \in FailedReads THEN "none" ELSE manifests[t]

\* C17 witness: the build is over, one read of a tag failed, and the tag is in
\* the database with that version absent and another one present.
C17_Witness ==
  /\ fetch.tag > MaxTag
  /\ \E t \in DOMAIN sdk_tags : \E p, q \in TrackedPackages :
       /\ <<t, p>> \in FailedReads
       /\ sdk_tags[t].package_versions[p] = "none"
       /\ sdk_tags[t].package_versions[q] = manifests[t]

\* C20: a call never fails more often than the attempts allowed; a data point
\* is missing only where a read was given up or failed; and the build gets
\* past every call, however often calls fail, and reaches its end with every
\* tag in the database.
C20_BoundedRetryThenProceed ==
  /\ [](fetch.attempts < MaxAttempts)
  /\ [](\A t \in DOMAIN sdk_tags : \A p \in TrackedPackages :
          sdk_tags[t].package_versions[p] = "none" => <<t, p>> \in FailedReads)
  /\ <>(fetch.tag > MaxTag /\ DOMAIN sdk_tags = SdkTags)

\* C20 witness: a read was given up after the last attempt allowed, a later
\* read of the same tag succeeded, and the build is over.
C20_Witness ==
  /\ fetch.tag > MaxTag
  /\ \E w \in warnings : \E p \in TrackedPackages :
       /\ w.gave_up
       /\ w.package = PackageOrder[1]
       /\ p # w.package
       /\ sdk_tags[w.tag].package_versions[p] = manifests[w.tag]

\* ------------------------------------------------ cache of fetched entities

Workers == 1..MaxWorkers

\* The details of a PR as one request returns them; two requests for the same
\* PR may return different details (its title edited in between).
PRDetails == [title : {"old title", "new title"}, merged_at : Dates]

\* A worker that has not picked a PR yet.
WorkerIdle == [pc |-> "idle", key |-> 0, record |-> <<>>]

\* A write that sets the fields of a record already cached one by one and has
\* got as far as merged_at.
CacheWriteFieldwise(cache, key, rec) ==
  [k \in DOMAIN cache \cup {key} |->
     IF k # key THEN cache[k]
     ELSE IF key \in DOMAIN cache
            THEN [cache[key] EXCEPT !.merged_at = rec.merged_at]
            ELSE rec]

\* pr_cache[number] = details: the key's record is replaced as a whole.
CacheWrite(cache, key, rec) ==
  [k \in DOMAIN cache \cup {key} |-> IF k = key THEN rec ELSE cache[k]]

InitCache ==
  /\ AssignIdle
  /\ backport_mapping = <<>>
  /\ original_to_backports = <<>>
  /\ github_prs = <<>>
  /\ branch_info = <<>>
  /\ sdk_tags = <<>>
  /\ runtime_match = <<>>
  /\ ExtractIdle
  /\ TagsIdle
  /\ RunIdle
  /\ FallbackIdle
  /\ pr_cache = <<>>
  /\ workers = [w \in Workers |-> WorkerIdle]
  /\ PageIdle

\* A worker finds the PR in the cache and takes the cached record.
CacheHit(w, key) ==
  /\ workers[w].pc = "idle"
  /\ key \in DOMAIN pr_cache
  /\ workers' = [workers EXCEPT ![w] =
       [pc |-> "hit", key |-> key, record |-> pr_cache[key]]]
  /\ UNCHANGED pr_cache
  /\ UNCHANGED <<assignVars, backportVars, branchVars, matchVars, auxVars,
                 branch_tags, uiVars>>

\* A worker requests a PR's details and holds the response.
FetchDetails(w, key, rec) ==
  /\ workers[w].pc = "idle"
  /\ workers' = [workers EXCEPT ![w] =
       [pc |-> "fetched", key |-> key, record |-> rec]]
  /\ UNCHANGED pr_cache
  /\ UNCHANGED <<assignVars, backportVars, branchVars, matchVars, auxVars,
                 branch_tags, uiVars>>

\* The worker stores the response it holds under the PR's number.
StoreDetails(w) ==
  /\ workers[w].pc = "fetched"
  /\ pr_cache' = CacheWrite(pr_cache, workers[w].key, workers[w].record)
  /\ workers' = [workers EXCEPT ![w].pc = "written"]
  /\ UNCHANGED <<assignVars, backportVars, branchVars, matchVars, auxVars,
                 branch_tags, uiVars>>

NextCache ==
  \/ \E w \in Workers : \E key \in PRs : CacheHit(w, key)
  \/ \E w \in Workers : \E key \in PRs : \E rec \in PRDetails :
       FetchDetails(w, key, rec)
  \/ \E w \in Workers : StoreDetails(w)

SpecCache == InitCache /\ [][NextCache]_vars

\* The records the workers have written for a key so far.
WrittenFor(key) ==
  {workers[w].record : w \in {v \in Workers :
                                workers[v].pc = "written" /\ workers[v].key = key}}

Snapshot(run, map, fwd, inv) ==
  [run |-> run, pr_to_releases |-> map, backport_mapping |-> fwd,
   original_to_backports |-> inv]

\* The results of the earlier run, as both output files hold them at the start.
PriorSnapshot == Snapshot(0, EmptyMapping, <<>>, <<>>)

\* The results this run holds in memory.
RunSnapshot == Snapshot(1, pr_to_releases, backport_mapping, original_to_backports)

\* The release lists an entry of pr_to_releases may be handed over with: no
\* release, one release, or two when the engine is defective.
ReleaseLists == {<<>>} \cup {<<r>> : r \in RuntimeTags} \cup {<<1, 2>>}

\* The backport indexes the run may be handed over with: empty, PR 2 a
\* backport of PR 1 in both maps, or in the forward map alone when the engine
\* is defective.
BackportIndexes ==
  {[fwd |-> <<>>, inv |-> <<>>],
   [fwd |-> (2 :> 1), inv |-> (1 :> <<2>>)],
   [fwd |-> (2 :> 1), inv |-> <<>>]}

\* The forward and the inverse backport map agree.
IndexesAgree(fwd, inv) ==
  /\ \A b \in DOMAIN fwd :
       fwd[b] \in DOMAIN inv /\ Occurrences(inv[fwd[b]], b) = 1
  /\ \A o \in DOMAIN inv : \A i \in DOMAIN inv[o] :
       inv[o][i] \in DOMAIN fwd /\ fwd[inv[o][i]] = o

\* The results pass whatever they look like.
ValidUnchecked(snap) == TRUE

\* The invariants of the results: no PR on more than one release, and the two
\* backport maps in agreement.
Valid(snap) ==
  /\ \A pr \in DOMAIN snap.pr_to_releases : Len(snap.pr_to_releases[pr]) <= 1
  /\ IndexesAgree(snap.backport_mapping, snap.original_to_backports)

InitRun ==
  /\ runtime_mappings = <<>>
  /\ merged_at = <<>>
  /\ branch_prs = <<>>
  /\ original_pr = <<>>
  /\ phase = "idle"
  /\ sorted_releases = <<>>
  /\ next_idx = 1
  /\ assigned_prs = {}
  /\ pr_to_releases = EmptyMapping
  /\ backport_mapping = <<>>
  /\ original_to_backports = <<>>
  /\ github_prs = <<>>
  /\ branch_info = <<>>
  /\ sdk_tags = <<>>
  /\ runtime_match = <<>>
  /\ ExtractIdle
  /\ TagsIdle
  /\ run_phase = "collecting"
  /\ output_files = [complete |-> PriorSnapshot, website |-> PriorSnapshot]
  /\ LateIdle

\* Phases 1 to 4 end: the tag database, the branches and the runtime releases
\* are processed and the PRs assigned; the results are in memory.
FinishComputation(map, index) ==
  /\ run_phase = "collecting"
  /\ pr_to_releases' = map
  /\ backport_mapping' = index.fwd
  /\ original_to_backports' = index.inv
  /\ run_phase' = "validating"
  /\ UNCHANGED <<runtime_mappings, merged_at, branch_prs, original_pr, phase,
                 sorted_releases, next_idx, assigned_prs>>
  /\ UNCHANGED <<branchVars, matchVars, extractVars, tagVars, output_files>>
  /\ UNCHANGED lateVars

\* The results are checked before anything is written: results that break an
\* invariant abort the run.
Validate ==
  /\ run_phase = "validating"
  /\ run_phase' = IF Valid(RunSnapshot) THEN "saving" ELSE "aborted"
  /\ UNCHANGED <<assignVars, backportVars, branchVars, matchVars, extractVars,
                 tagVars, output_files>>
  /\ UNCHANGED lateVars

\* save_results, first file: branch_aware_mappings.json, the complete data.
WriteCompleteData ==
  /\ run_phase = "saving"
  /\ output_files' = [output_files EXCEPT !.complete = RunSnapshot]
  /\ run_phase' = "saving_website"
  /\ UNCHANGED <<assignVars, backportVars, branchVars, matchVars, extractVars,
                 tagVars>>
  /\ UNCHANGED lateVars

\* save_results, second file: sdk_pr_mappings.json, the file the website loads.
WriteWebsiteData ==
  /\ run_phase = "saving_website"
  /\ output_files' = [output_files EXCEPT !.website = RunSnapshot]
  /\ run_phase' = "done"
  /\ UNCHANGED <<assignVars, backportVars, branchVars, matchVars, extractVars,
                 tagVars>>
  /\ UNCHANGED lateVars

\* The run fails or is cancelled where it stands.
AbortRun ==
  /\ run_phase \in {"collecting", "validating", "saving", "saving_website"}
  /\ run_phase' = "aborted"
  /\ UNCHANGED <<assignVars, backportVars, branchVars, matchVars, extractVars,
                 tagVars, output_files>>
  /\ UNCHANGED lateVars

NextRun ==
  \/ \E map \in [PRs -> ReleaseLists] : \E index \in BackportIndexes :
       FinishComputation(map, index)
  \/ Validate
  \/ WriteCompleteData
  \/ WriteWebsiteData
  \/ AbortRun

SpecRun == InitRun /\ [][NextRun]_vars

\* C18 as stated: the output is the complete result of a finished run or the
\* untouched earlier one: both files hold the same run's results at every
\* moment, this run's only once it is done, and after an abort both still hold
\* the earlier results.
C18_OutputCompleteOrUntouched ==
  /\ output_files.complete = output_files.website
  /\ output_files.website \in {PriorSnapshot, RunSnapshot}
  /\ output_files.website # PriorSnapshot => run_phase = "done"
  /\ run_phase = "aborted" =>
       output_files = [complete |-> PriorSnapshot, website |-> PriorSnapshot]

\* Results that put a PR on more than one release or whose forward and
\* inverse backport maps disagree.
Corrupted(snap) ==
  \/ \E pr \in DOMAIN snap.pr_to_releases : Len(snap.pr_to_releases[pr]) > 1
  \/ ~IndexesAgree(snap.backport_mapping, snap.original_to_backports)

\* C19: no output file ever holds results that put a PR on two releases or
\* whose backport maps disagree, and a run holding such results in memory
\* never gets to write: it stands before the check or is aborted, the files
\* still those of the earlier run.
C19_InvalidResultsNeverPersisted ==
  /\ ~Corrupted(output_files.complete)
  /\ ~Corrupted(output_files.website)
  /\ Corrupted(RunSnapshot) =>
       /\ run_phase \in {"validating", "aborted"}
       /\ output_files = [complete |-> PriorSnapshot, website |-> PriorSnapshot]

\* C19 witness: the results put a PR on two releases, the run is aborted and
\* the files are those of the earlier run.
C19_Witness ==
  /\ run_phase = "aborted"
  /\ \E pr \in PRs : Len(pr_to_releases[pr]) = 2
  /\ IndexesAgree(backport_mapping, original_to_backports)
  /\ output_files = [complete |-> PriorSnapshot, website |-> PriorSnapshot]

\* ------------------------------------------- web page: SDK PRs of a release

\* A release tag name: "v1.6.0" or "1.6.0", the version numbered as the
\* runtime tags are.
ReleaseTag == [prefixed : BOOLEAN, version : RuntimeTags]

\* null where a tag name is expected
NoTag == [prefixed |-> FALSE, version |-> 0]

\* releaseTagName.replace(/^v/, '')
StripV(tag) == tag.version

\* releaseTagName.startsWith('v') ? releaseTagName : 'v' + releaseTagName
WithV(tag) == [prefixed |-> TRUE, version |-> tag.version]

\* The entries of pr_to_releases as sdk_pr_mappings.json holds them: records
\* with the runtime version they name.
ReleaseEntries ==
  {[i \in DOMAIN l |-> [runtime_version |-> l[i]]] : l \in ReleaseLists}

\* The pr_to_releases objects a mappings file may hold.
PRToReleasesObjects == UNION {[K -> ReleaseEntries] : K \in SUBSET PRs}

\* sdkMappings before sdk_pr_mappings.json has been loaded
NoMappings ==
  [loaded |-> FALSE, runtime_sdk_versions |-> {}, pr_to_releases |-> <<>>,
   original_to_backports |-> <<>>]

\* sdkMappings once loaded: the runtime versions with SDK version info, the
\* PR to releases mapping, and the inverse backport map.
Mappings(versions, map, inv) ==
  [loaded |-> TRUE, runtime_sdk_versions |-> versions, pr_to_releases |-> map,
   original_to_backports |-> inv]

\* Object.entries of an object with integer keys: the keys in ascending order.
RECURSIVE ObjectKeys(_)
ObjectKeys(S) ==
  IF S = {} THEN <<>> ELSE <<Min(S)>> \o ObjectKeys(S \ {Min(S)})

\* releases.find(r => r.runtime_version === runtimeVersion)
ReleaseMatch(entries, runtimeVersion) ==
  \E i \in DOMAIN entries : entries[i].runtime_version = runtimeVersion

\* The loop over Object.entries(sdkMappings.pr_to_releases): the PRs with a
\* matching release, in the order of the entries.
RECURSIVE CollectSDKPRs(_, _, _)
CollectSDKPRs(map, keys, runtimeVersion) ==
  IF keys = <<>> THEN <<>>
  ELSE (IF ReleaseMatch(map[Head(keys)], runtimeVersion)
          THEN <<Head(keys)>> ELSE <<>>)
       \o CollectSDKPRs(map, Tail(keys), runtimeVersion)

\* The list left in the order of the entries.
UnsortedSDKPRs(list) == list

\* sdkPRs.sort((a, b) => parseInt(b.number) - parseInt(a.number))
RECURSIVE SortByNumberDescending(_)
SortByNumberDescending(list) ==
  IF list = <<>> THEN <<>>
  ELSE LET m == CHOOSE x \in Range(list) : \A y \in Range(list) : y <= x
       IN  <<m>> \o SortByNumberDescending(SelectSeq(list, LAMBDA x : x # m))

\* What loadSDKPRsForRelease leaves in the sdkPRList element.
SDKPRListFor(mappings, tag) ==
  IF ~mappings.loaded
    THEN [kind |-> "not available", release |-> tag, prs |-> <<>>]
  ELSE LET found == CollectSDKPRs(mappings.pr_to_releases,
                                  ObjectKeys(DOMAIN mappings.pr_to_releases),
                                  StripV(tag))
       IN  IF WithV(tag).version \in mappings.runtime_sdk_versions
             THEN [kind |-> "sdk version", release |-> tag,
                   prs |-> SortByNumberDescending(found)]
           ELSE IF found = <<>>
             THEN [kind |-> "no sdk prs", release |-> tag, prs |-> <<>>]
           ELSE [kind |-> "list", release |-> tag,
                 prs |-> SortByNumberDescending(found)]

\* The sdkPRList element as renderRelease creates it.
LoadingSDKPRs == [kind |-> "loading", release |-> NoTag, prs |-> <<>>]

\* A release is rendered and the mappings are loaded.
InitList ==
  /\ AssignIdle
  /\ backport_mapping = <<>>
  /\ original_to_backports = <<>>
  /\ github_prs = <<>>
  /\ branch_info = <<>>
  /\ sdk_tags = <<>>
  /\ runtime_match = <<>>
  /\ ExtractIdle
  /\ TagsIdle
  /\ RunIdle
  /\ FallbackIdle
  /\ CacheIdle
  /\ releases = {}
  /\ currentRelease = <<>>
  /\ hash = <<>>
  /\ releaseContent = <<>>
  /\ sdkPRList = LoadingSDKPRs
  /\ \E versions \in SUBSET RuntimeTags : \E map \in PRToReleasesObjects :
       sdkMappings = Mappings(versions, map, <<>>)
  /\ calls = <<>>
  /\ events = <<>>
  /\ modalShown = FALSE
  /\ prSearchResults = <<>>
  /\ sdkPRInput = <<>>
  /\ searchDisabled = FALSE

\* loadSDKPRsForRelease(releaseTagName)
LoadSDKPRsForRelease(tag) ==
  /\ sdkPRList' = SDKPRListFor(sdkMappings, tag)
  /\ UNCHANGED <<releases, currentRelease, hash, releaseContent, sdkMappings,
                 calls, events, modalShown, prSearchResults, sdkPRInput,
                 searchDisabled>>
  /\ UNCHANGED engineVars

NextList == \E tag \in ReleaseTag : LoadSDKPRsForRelease(tag)

SpecList == InitList /\ [][NextList]_vars

\* The PRs loadSDKPRsForRelease lists for a tag.
ListedUnder(tag) == Range(SDKPRListFor(sdkMappings, tag).prs)

\* C23: with the mappings loaded, the PRs listed for a release are exactly the
\* PRs whose entry names the tag's version without its 'v', each once, the
\* higher number first; and when no entry names more than one release, no PR
\* is listed under two releases of different versions.
C23_ListsExactlyTheReleasePRsDescending ==
  /\ sdkPRList.kind # "loading" =>
       LET prs == sdkPRList.prs
           map == sdkMappings.pr_to_releases
       IN  /\ Range(prs) =
                {pr \in DOMAIN map :
                   \E i \in DOMAIN map[pr] :
                     map[pr][i].runtime_version = sdkPRList.release.version}
           /\ \A i, j \in DOMAIN prs : i < j => prs[i] > prs[j]
           /\ sdkPRList.kind \in {"sdk version", "no sdk prs", "list"}
  /\ (\A pr \in DOMAIN sdkMappings.pr_to_releases :
        Len(sdkMappings.pr_to_releases[pr]) <= 1)
       => \A t, u \in ReleaseTag :
            t.version # u.version => ListedUnder(t) \cap ListedUnder(u) = {}

\* C23 witness: the list of release "v2" shows PR 2 before PR 1, PR 1 being
\* on release 2 only, while the file also holds a PR of another release alone
\* or none.
C23_Witness ==
  /\ sdkPRList.kind = "list"
  /\ sdkPRList.release = [prefixed |-> TRUE, version |-> 2]
  /\ sdkPRList.prs = <<2, 1>>
  /\ \A pr \in DOMAIN sdkMappings.pr_to_releases :
       Len(sdkMappings.pr_to_releases[pr]) = 1

\* ----------------------------------------------- web page: loading releases

\* The tag names in data/releases/index.json.
IndexTags == {[prefixed |-> TRUE, version |-> v] : v \in RuntimeTags}

\* A hash that names no release of the index.
UnknownTag == [prefixed |-> FALSE, version |-> 1]

\* The values window.location.hash may have: empty, a release, or another
\* string.
Hashes == {NoTag, UnknownTag} \cup IndexTags

\* What data/sdk-mappings/sdk_pr_mappings.json holds while the page is used:
\* every release with its SDK version, every PR on release 1.
PublishedMappings ==
  Mappings(RuntimeTags, [pr \in PRs |-> <<[runtime_version |-> 1]>>], <<>>)

\* One call of an async function: the function, its argument, what started
\* it, and how far it got.
Call(fn, tag, origin, pc) == [fn |-> fn, tag |-> tag, origin |-> origin, pc |-> pc]

\* The panel's contents.
Welcome == [kind |-> "welcome", tag |-> NoTag]
LoadingRelease == [kind |-> "loading", tag |-> NoTag]
ErrorLoadingRelease == [kind |-> "error", tag |-> NoTag]
RenderedRelease(tag) == [kind |-> "release", tag |-> tag]

\* No sdkPRList element in the document.
NoSDKPRList == [kind |-> "absent", release |-> NoTag, prs |-> <<>>]

LoadCalls == {i \in DOMAIN calls : calls[i].fn = "loadRelease"}

Settled(i) == calls[i].pc \in {"done", "failed"}

\* The queued hashchange events that a navigation of the user raised.
UserNavigations == {k \in DOMAIN events : events[k].cause = "user"}

\* A handler that loads whatever release the hash names.
LoadsOnAnyHash(h, current) == h # NoTag

\* hash && hash !== state.currentRelease
LoadsOnHashChange(h, current) == h # NoTag /\ h # current

\* state.currentRelease written before the fetch, whatever its outcome.
CurrentSetBeforeFetch(call, ok) == call.tag

\* state.currentRelease as loadRelease leaves it: the assignment comes after
\* the awaits and is skipped by a throw.
CurrentAfterLoad(call, ok) == IF ok THEN call.tag ELSE currentRelease

\* window.location.hash = tagName: a hashchange event is queued when the
\* fragment changes.
EventsAfterSetHash(tag) ==
  IF hash = tag THEN events
  ELSE Append(events, [cause |-> "loadRelease"])

\* DOMContentLoaded has fired: init() and loadSDKMappings() are both waiting
\* for their fetch; the URL may carry a hash.
InitPage ==
  /\ AssignIdle
  /\ backport_mapping = <<>>
  /\ original_to_backports = <<>>
  /\ github_prs = <<>>
  /\ branch_info = <<>>
  /\ sdk_tags = <<>>
  /\ runtime_match = <<>>
  /\ ExtractIdle
  /\ TagsIdle
  /\ RunIdle
  /\ FallbackIdle
  /\ CacheIdle
  /\ releases = {}
  /\ currentRelease = NoTag
  /\ hash \in Hashes
  /\ releaseContent = Welcome
  /\ sdkPRList = NoSDKPRList
  /\ sdkMappings = NoMappings
  /\ calls = <<Call("init", NoTag, "DOMContentLoaded", "fetching"),
               Call("loadSDKMappings", NoTag, "DOMContentLoaded", "fetching")>>
  /\ events = <<>>
  /\ modalShown = FALSE
  /\ prSearchResults = <<>>
  /\ sdkPRInput = <<>>
  /\ searchDisabled = FALSE

\* loadRelease(tagName) up to its first await: the loading panel, then either
\* the fetch is under way or 'Release not found' was thrown and caught.
StartLoadRelease(tag, origin, known) ==
  IF tag \in known
    THEN /\ releaseContent' = LoadingRelease
         /\ sdkPRList' = NoSDKPRList
         /\ calls' = Append(calls, Call("loadRelease", tag, origin, "fetching"))
    ELSE /\ releaseContent' = ErrorLoadingRelease
         /\ sdkPRList' = NoSDKPRList
         /\ calls' = Append(calls, Call("loadRelease", tag, origin, "failed"))

\* init() after the index has arrived: the list is rendered and the release
\* named by the hash, if the index has it, is loaded.
InitLoaded ==
  /\ calls[1].pc = "fetching"
  /\ releases' = IndexTags
  /\ IF hash # NoTag /\ hash \in IndexTags
       THEN /\ releaseContent' = LoadingRelease
            /\ sdkPRList' = NoSDKPRList
            /\ calls' = Append([calls EXCEPT ![1].pc = "done"],
                               Call("loadRelease", hash, "init", "fetching"))
       ELSE /\ calls' = [calls EXCEPT ![1].pc = "done"]
            /\ UNCHANGED <<releaseContent, sdkPRList>>
  /\ UNCHANGED <<currentRelease, hash, sdkMappings, events, modalShown,
                 prSearchResults, sdkPRInput, searchDisabled>>
  /\ UNCHANGED engineVars

\* init() when the index cannot be loaded.
InitFails ==
  /\ calls[1].pc = "fetching"
  /\ calls' = [calls EXCEPT ![1].pc = "failed"]
  /\ UNCHANGED <<releases, currentRelease, hash, releaseContent, sdkPRList,
                 sdkMappings, events, modalShown, prSearchResults, sdkPRInput,
                 searchDisabled>>
  /\ UNCHANGED engineVars

\* loadSDKMappings() after the file has arrived.
MappingsLoaded ==
  /\ calls[2].pc = "fetching"
  /\ sdkMappings' = PublishedMappings
  /\ calls' = [calls EXCEPT ![2].pc = "done"]
  /\ UNCHANGED <<releases, currentRelease, hash, releaseContent, sdkPRList,
                 events, modalShown, prSearchResults, sdkPRInput,
                 searchDisabled>>
  /\ UNCHANGED engineVars

\* loadSDKMappings() when the response is not ok or the fetch throws.
MappingsFail ==
  /\ calls[2].pc = "fetching"
  /\ calls' = [calls EXCEPT ![2].pc = "failed"]
  /\ UNCHANGED <<releases, currentRelease, hash, releaseContent, sdkPRList,
                 sdkMappings, events, modalShown, prSearchResults, sdkPRInput,
                 searchDisabled>>
  /\ UNCHANGED engineVars

\* A click on an item of the release list.
ClickRelease(tag) ==
  /\ tag \in releases
  /\ Cardinality(LoadCalls) < MaxLoads
  /\ StartLoadRelease(tag, "click", releases)
  /\ UNCHANGED <<releases, currentRelease, hash, sdkMappings, events,
                 modalShown, prSearchResults, sdkPRInput, searchDisabled>>
  /\ UNCHANGED engineVars

\* loadRelease after its fetch and parse succeeded: state and hash are set,
\* the release is rendered and its SDK PRs are looked up.
LoadReleaseSucceeds(i) ==
  /\ i \in LoadCalls
  /\ calls[i].pc = "fetching"
  /\ currentRelease' = CurrentAfterLoad(calls[i], TRUE)
  /\ hash' = calls[i].tag
  /\ events' = EventsAfterSetHash(calls[i].tag)
  /\ releaseContent' = RenderedRelease(calls[i].tag)
  /\ sdkPRList' = SDKPRListFor(sdkMappings, calls[i].tag)
  /\ calls' = [calls EXCEPT ![i].pc = "done"]
  /\ UNCHANGED <<releases, sdkMappings, modalShown, prSearchResults,
                 sdkPRInput, searchDisabled>>
  /\ UNCHANGED engineVars

\* loadRelease when the response is not ok or fetch or parse throws: the
\* catch block shows the error.
LoadReleaseFails(i) ==
  /\ i \in LoadCalls
  /\ calls[i].pc = "fetching"
  /\ currentRelease' = CurrentAfterLoad(calls[i], FALSE)
  /\ releaseContent' = ErrorLoadingRelease
  /\ sdkPRList' = NoSDKPRList
  /\ calls' = [calls EXCEPT ![i].pc = "failed"]
  /\ UNCHANGED <<releases, hash, sdkMappings, events, modalShown,
                 prSearchResults, sdkPRInput, searchDisabled>>
  /\ UNCHANGED engineVars

\* The user changes the hash: back, forward, or an edited URL.  Events are
\* dispatched faster than a user acts: no earlier navigation is still queued.
UserNavigates(h) ==
  /\ h # hash
  /\ UserNavigations = {}
  /\ hash' = h
  /\ events' = Append(events, [cause |-> "user"])
  /\ UNCHANGED <<releases, currentRelease, releaseContent, sdkPRList,
                 sdkMappings, calls, modalShown, prSearchResults, sdkPRInput,
                 searchDisabled>>
  /\ UNCHANGED engineVars

\* The hashchange handler runs for the oldest queued event; it reads the hash
\* as it is now.  The call it starts is marked with what raised the event.
HashChange ==
  /\ events # <<>>
  /\ events' = Tail(events)
  /\ IF LoadsOnHashChange(hash, currentRelease)
       THEN /\ Cardinality(LoadCalls) < MaxLoads
            /\ StartLoadRelease(hash, Head(events).cause, releases)
       ELSE UNCHANGED <<releaseContent, sdkPRList, calls>>
  /\ UNCHANGED <<releases, currentRelease, hash, sdkMappings, modalShown,
                 prSearchResults, sdkPRInput, searchDisabled>>
  /\ UNCHANGED engineVars

NextPage ==
  \/ InitLoaded
  \/ InitFails
  \/ MappingsLoaded
  \/ MappingsFail
  \/ \E tag \in IndexTags : ClickRelease(tag)
  \/ \E i \in DOMAIN calls : LoadReleaseSucceeds(i)
  \/ \E i \in DOMAIN calls : LoadReleaseFails(i)
  \/ \E h \in Hashes : UserNavigates(h)
  \/ HashChange

SpecPage == InitPage /\ [][NextPage]_vars

\* A step in which a loadRelease call fails: one that was fetching, or one
\* that throws 'Release not found' as soon as it is started.
LoadFailureStep ==
  \E i \in DOMAIN calls' :
    /\ calls'[i].fn = "loadRelease"
    /\ calls'[i].pc = "failed"
    /\ i \in DOMAIN calls => calls[i].pc = "fetching"

\* C25: a loadRelease call that fails, by an unknown tag, a response that is
\* not ok, or a fetch or parse error, leaves state.currentRelease and the hash
\* as they were and puts the error message into the content panel.
C25_FailedLoadKeepsStateAndHash ==
  [][LoadFailureStep =>
       /\ currentRelease' = currentRelease
       /\ hash' = hash
       /\ releaseContent' = ErrorLoadingRelease]_vars

\* C25 witness: a release is current and in the hash, the load of another
\* release has failed after its fetch, and the panel shows the error.
C25_Witness ==
  /\ currentRelease \in IndexTags
  /\ hash = currentRelease
  /\ releaseContent = ErrorLoadingRelease
  /\ \E i \in LoadCalls :
       /\ calls[i].pc = "failed"
       /\ calls[i].tag \in IndexTags
       /\ calls[i].tag # currentRelease
       /\ \A j \in LoadCalls : j # i => calls[j].pc = "done"

\* C26 as stated: once every loadRelease call, each started by a click or by
\* init(), has returned its release, and the hash is still the one loadRelease
\* set, the current release, the hash and the panel are those of the call
\* started last.
C26_LastRequestedReleaseShown ==
  (/\ LoadCalls # {}
   /\ \A i \in LoadCalls :
        calls[i].pc = "done" /\ calls[i].origin \in {"init", "click"}
   /\ events = <<>>
   /\ hash = currentRelease)
    => LET last == CHOOSE i \in LoadCalls : \A j \in LoadCalls : j <= i
       IN  /\ currentRelease = calls[last].tag
           /\ hash = calls[last].tag
           /\ releaseContent = RenderedRelease(calls[last].tag)

\* A step of the hashchange handler for an event that loadRelease raised, no
\* navigation of the user being queued behind it.
OwnHashChangeStep ==
  /\ events # <<>>
  /\ events' = Tail(events)
  /\ \A k \in DOMAIN events : events[k].cause = "loadRelease"

\* C27: the hashchange event raised when loadRelease sets the hash finds the
\* hash equal to state.currentRelease and starts no load, so the release's
\* data is fetched once and a click never loops.
C27_OwnHashChangeStartsNoLoad ==
  [][OwnHashChangeStep => (hash = currentRelease /\ calls' = calls)]_vars

\* C27 witness: one click, its release loaded, and the hashchange event that
\* setting the hash raised about to be dispatched, the hash being the current
\* release.
C27_Witness ==
  /\ Cardinality(LoadCalls) = 1
  /\ \E i \in LoadCalls : calls[i].pc = "done" /\ calls[i].origin = "click"
  /\ events = <<[cause |-> "loadRelease"]>>
  /\ hash = currentRelease
  /\ hash \in IndexTags

\* C30 as stated: once init() and loadSDKMappings() have both succeeded, a
\* release on display does not show 'SDK PR mappings not available'.
C30_SDKPRsShownOnceBothLoaded ==
  (/\ calls[1].pc = "done"
   /\ calls[2].pc = "done"
   /\ \A i \in LoadCalls : Settled(i)
   /\ events = <<>>
   /\ releaseContent.kind = "release")
    => sdkPRList.kind # "not available"

\* -------------------------------------------------- web page: the PR search

\* The PR numbers searched for and held by the mappings file.
SearchPRs == 1..(MaxPR + 1)

\* What the search input holds: nothing, a PR number, or words that match the
\* titles on file or do not.
EmptyQuery == [kind |-> "empty", pr |-> 0, matches |-> FALSE]
NumberQuery(pr) == [kind |-> "number", pr |-> pr, matches |-> FALSE]
TextQuery(matches) == [kind |-> "text", pr |-> 0, matches |-> matches]

Queries ==
  {EmptyQuery} \cup {NumberQuery(pr) : pr \in SearchPRs}
    \cup {TextQuery(m) : m \in BOOLEAN}

\* What prSearchResults shows: the kind of message, the query it answers, the
\* PR displayed, and the releases, backports or PRs listed with it.
Shown(kind, query, pr, list) ==
  [kind |-> kind, query |-> query, pr |-> pr, list |-> list]

\* prSearchResults.innerHTML = ''
NothingShown == Shown("empty", EmptyQuery, 0, <<>>)

\* The entries a searched PR may have: an empty list or one release.
SearchEntries == {<<>>, <<[runtime_version |-> 1]>>}

\* The lists of backports an original may have: one backport or two, in
\* either order.
BackportLists(o) ==
  {<<b>> : b \in SearchPRs \ {o}}
    \cup ({<<b, c>> : b, c \in SearchPRs \ {o}} \ {<<b, b>> : b \in SearchPRs})

\* The original_to_backports objects: none, or PR 1 as the one original, with
\* its list.
OriginalToBackportsObjects == {<<>>} \cup {(1 :> l) : l \in BackportLists(1)}

\* The mappings files the search is run against.
MappingFiles ==
  {Mappings(RuntimeTags, map, inv) :
     map \in UNION {[K -> SearchEntries] : K \in SUBSET SearchPRs},
     inv \in OriginalToBackportsObjects}

\* What data/sdk-mappings/prs/<n>.json holds for a PR that has such a file.
PRFileReleases == <<[runtime_version |-> 2]>>

\* The call of searchSDKPR waiting for the individual PR file.
SearchCall(query) ==
  [fn |-> "searchSDKPR", tag |-> NoTag, origin |-> "search", pc |-> "fetching",
   query |-> query]

SearchCalls == {i \in DOMAIN calls : calls[i].fn = "searchSDKPR"}

\* The calls without the one that has returned.
WithoutCall(i) == SubSeq(calls, 1, i - 1) \o SubSeq(calls, i + 1, Len(calls))

\* The loop without its break: the last backport with an entry is kept.
RECURSIVE LastBackportInReleases(_, _)
LastBackportInReleases(map, backports) ==
  IF backports = <<>> THEN 0
  ELSE LET later == LastBackportInReleases(map, Tail(backports))
       IN  IF later # 0 THEN later
           ELSE IF Head(backports) \in DOMAIN map THEN Head(backports) ELSE 0

\* for (const backportNum of backports) { if (pr_to_releases[backportNum])
\* { foundBackport = backportNum; break; } }; 0 stands for null.
RECURSIVE FoundBackport(_, _)
FoundBackport(map, backports) ==
  IF backports = <<>> THEN 0
  ELSE IF Head(backports) \in DOMAIN map THEN Head(backports)
  ELSE FoundBackport(map, Tail(backports))

\* The number search on the local mapping data: what is displayed, or no
\* display yet because the individual PR file has to be fetched.
NumberSearch(mappings, query) ==
  LET map == mappings.pr_to_releases
      inv == mappings.original_to_backports
      pr == query.pr
  IN  IF pr \in DOMAIN map THEN Shown("pr", query, pr, map[pr])
      ELSE IF pr \in DOMAIN inv
        THEN LET found == FoundBackport(map, inv[pr])
             IN  IF found # 0 THEN Shown("pr", query, found, map[found])
                 ELSE Shown("original", query, pr, inv[pr])
      ELSE Shown("loading", query, pr, <<>>)

\* searchPRsByTitle and what is displayed for it.
TitleSearch(mappings, query) ==
  IF mappings.loaded /\ query.matches /\ DOMAIN mappings.pr_to_releases # {}
    THEN Shown("titles", query, 0, ObjectKeys(DOMAIN mappings.pr_to_releases))
    ELSE Shown("no results", query, 0, <<>>)

\* openPRSearchBtn click, or Cmd/Ctrl + K
OpenPRSearch ==
  /\ ~modalShown
  /\ modalShown' = TRUE
  /\ UNCHANGED <<releases, currentRelease, hash, releaseContent, sdkPRList,
                 sdkMappings, calls, events, prSearchResults, sdkPRInput,
                 searchDisabled>>
  /\ UNCHANGED engineVars

\* The user edits the search input.
TypeQuery(query) ==
  /\ modalShown
  /\ query # sdkPRInput
  /\ sdkPRInput' = query
  /\ UNCHANGED <<releases, currentRelease, hash, releaseContent, sdkPRList,
                 sdkMappings, calls, events, modalShown, prSearchResults,
                 searchDisabled>>
  /\ UNCHANGED engineVars

\* searchSDKPR() up to its await, or to its end when it does not fetch.  The
\* Enter key starts it whether or not the button is disabled.
SearchSDKPR ==
  /\ modalShown
  /\ IF sdkPRInput.kind = "empty"
       THEN /\ prSearchResults' = Shown("enter query", sdkPRInput, 0, <<>>)
            /\ UNCHANGED <<searchDisabled, calls>>
     ELSE IF sdkPRInput.kind = "text"
       THEN /\ prSearchResults' = TitleSearch(sdkMappings, sdkPRInput)
            /\ searchDisabled' = FALSE
            /\ UNCHANGED calls
     ELSE IF ~sdkMappings.loaded
       THEN /\ prSearchResults' = Shown("loading", sdkPRInput, sdkPRInput.pr, <<>>)
            /\ searchDisabled' = FALSE
            /\ UNCHANGED calls
     ELSE LET display == NumberSearch(sdkMappings, sdkPRInput)
          IN  /\ prSearchResults' = display
              /\ IF display.kind = "loading"
                   THEN /\ Cardinality(SearchCalls) < MaxLoads
                        /\ searchDisabled' = TRUE
                        /\ calls' = Append(calls, SearchCall(sdkPRInput))
                   ELSE /\ searchDisabled' = FALSE
                        /\ UNCHANGED calls
  /\ UNCHANGED <<releases, currentRelease, hash, releaseContent, sdkPRList,
                 sdkMappings, events, modalShown, sdkPRInput>>
  /\ UNCHANGED engineVars

\* The individual PR file has arrived: displaySDKPRResults(prData, prNumber).
SearchFileFound(i) ==
  /\ i \in SearchCalls
  /\ prSearchResults' =
       Shown("pr", calls[i].query, calls[i].query.pr, PRFileReleases)
  /\ searchDisabled' = FALSE
  /\ calls' = WithoutCall(i)
  /\ UNCHANGED <<releases, currentRelease, hash, releaseContent, sdkPRList,
                 sdkMappings, events, modalShown, sdkPRInput>>
  /\ UNCHANGED engineVars

\* The response for the individual PR file is not ok: 'PR #n Not Found'.
SearchFileMissing(i) ==
  /\ i \in SearchCalls
  /\ prSearchResults' =
       Shown("not found", calls[i].query, calls[i].query.pr, <<>>)
  /\ searchDisabled' = FALSE
  /\ calls' = WithoutCall(i)
  /\ UNCHANGED <<releases, currentRelease, hash, releaseContent, sdkPRList,
                 sdkMappings, events, modalShown, sdkPRInput>>
  /\ UNCHANGED engineVars

\* The fetch of the individual PR file or its parse throws: the catch block.
SearchFileThrows(i) ==
  /\ i \in SearchCalls
  /\ prSearchResults' =
       Shown("error", calls[i].query, calls[i].query.pr, <<>>)
  /\ searchDisabled' = FALSE
  /\ calls' = WithoutCall(i)
  /\ UNCHANGED <<releases, currentRelease, hash, releaseContent, sdkPRList,
                 sdkMappings, events, modalShown, sdkPRInput>>
  /\ UNCHANGED engineVars

\* window.viewPRDetails(prNumber), the button of a title search result
ViewPRDetails(pr) ==
  /\ modalShown
  /\ prSearchResults.kind = "titles"
  /\ pr \in Range(prSearchResults.list)
  /\ prSearchResults' =
       Shown("pr", prSearchResults.query, pr, sdkMappings.pr_to_releases[pr])
  /\ UNCHANGED <<releases, currentRelease, hash, releaseContent, sdkPRList,
                 sdkMappings, calls, events, modalShown, sdkPRInput,
                 searchDisabled>>
  /\ UNCHANGED engineVars

\* What every close path does: the modal hidden, results and input cleared.
ModalClosed ==
  /\ modalShown' = FALSE
  /\ prSearchResults' = NothingShown
  /\ sdkPRInput' = EmptyQuery

\* closePRSearchBtn click
ClosePRSearch ==
  /\ modalShown
  /\ ModalClosed
  /\ UNCHANGED <<releases, currentRelease, hash, releaseContent, sdkPRList,
                 sdkMappings, calls, events, searchDisabled>>
  /\ UNCHANGED engineVars

\* A click on the modal's backdrop.
OutsideClick ==
  /\ modalShown
  /\ ModalClosed
  /\ UNCHANGED <<releases, currentRelease, hash, releaseContent, sdkPRList,
                 sdkMappings, calls, events, searchDisabled>>
  /\ UNCHANGED engineVars

\* The Escape key while the modal is shown.
EscapeKey ==
  /\ modalShown
  /\ ModalClosed
  /\ UNCHANGED <<releases, currentRelease, hash, releaseContent, sdkPRList,
                 sdkMappings, calls, events, searchDisabled>>
  /\ UNCHANGED engineVars

\* A click on a runtime release of the PR displayed: the modal is closed and
\* the release, if the index has it, is loaded.
ClickRuntimeReleaseItem(k) ==
  /\ modalShown
  /\ prSearchResults.kind = "pr"
  /\ k \in DOMAIN prSearchResults.list
  /\ ModalClosed
  /\ LET tag == [prefixed |-> TRUE,
                 version |-> prSearchResults.list[k].runtime_version]
     IN  IF tag \in releases
           THEN /\ Cardinality(LoadCalls) < MaxLoads
                /\ StartLoadRelease(tag, "search", releases)
           ELSE UNCHANGED <<releaseContent, sdkPRList, calls>>
  /\ UNCHANGED <<releases, currentRelease, hash, sdkMappings, events,
                 searchDisabled>>
  /\ UNCHANGED engineVars

\* The page once init() is through: the releases listed, nothing loaded, the
\* modal closed, and loadSDKMappings() perhaps still waiting.
InitSearch ==
  /\ AssignIdle
  /\ backport_mapping = <<>>
  /\ original_to_backports = <<>>
  /\ github_prs = <<>>
  /\ branch_info = <<>>
  /\ sdk_tags = <<>>
  /\ runtime_match = <<>>
  /\ ExtractIdle
  /\ TagsIdle
  /\ RunIdle
  /\ FallbackIdle
  /\ CacheIdle
  /\ releases = IndexTags
  /\ currentRelease = NoTag
  /\ hash = NoTag
  /\ releaseContent = Welcome
  /\ sdkPRList = NoSDKPRList
  /\ sdkMappings = NoMappings
  /\ calls = <<Call("init", NoTag, "DOMContentLoaded", "done"),
               Call("loadSDKMappings", NoTag, "DOMContentLoaded", "fetching")>>
  /\ events = <<>>
  /\ modalShown = FALSE
  /\ prSearchResults = NothingShown
  /\ sdkPRInput = EmptyQuery
  /\ searchDisabled = FALSE

NextSearch ==
  \/ MappingsLoaded
  \/ MappingsFail
  \/ OpenPRSearch
  \/ \E query \in Queries : TypeQuery(query)
  \/ SearchSDKPR
  \/ \E i \in DOMAIN calls : SearchFileFound(i)
  \/ \E i \in DOMAIN calls : SearchFileMissing(i)
  \/ \E i \in DOMAIN calls : SearchFileThrows(i)
  \/ \E pr \in SearchPRs : ViewPRDetails(pr)
  \/ ClosePRSearch
  \/ OutsideClick
  \/ EscapeKey
  \/ \E k \in 1..MaxRel : ClickRuntimeReleaseItem(k)
  \/ \E i \in DOMAIN calls : LoadReleaseSucceeds(i)
  \/ \E i \in DOMAIN calls : LoadReleaseFails(i)
  \/ HashChange

SpecSearch == InitSearch /\ [][NextSearch]_vars

\* The search modal open on a page whose mappings have been loaded from any of
\* the mappings files.
InitResolve ==
  /\ AssignIdle
  /\ backport_mapping = <<>>
  /\ original_to_backports = <<>>
  /\ github_prs = <<>>
  /\ branch_info = <<>>
  /\ sdk_tags = <<>>
  /\ runtime_match = <<>>
  /\ ExtractIdle
  /\ TagsIdle
  /\ RunIdle
  /\ FallbackIdle
  /\ CacheIdle
  /\ releases = IndexTags
  /\ currentRelease = NoTag
  /\ hash = NoTag
  /\ releaseContent = Welcome
  /\ sdkPRList = NoSDKPRList
  /\ sdkMappings \in MappingFiles
  /\ calls = <<Call("init", NoTag, "DOMContentLoaded", "done"),
               Call("loadSDKMappings", NoTag, "DOMContentLoaded", "done")>>
  /\ events = <<>>
  /\ modalShown = TRUE
  /\ prSearchResults = NothingShown
  /\ sdkPRInput = EmptyQuery
  /\ searchDisabled = FALSE

NextResolve ==
  \/ \E query \in Queries : TypeQuery(query)
  \/ SearchSDKPR
  \/ \E i \in DOMAIN calls : SearchFileFound(i)
  \/ \E i \in DOMAIN calls : SearchFileMissing(i)
  \/ \E i \in DOMAIN calls : SearchFileThrows(i)
  \/ \E pr \in SearchPRs : ViewPRDetails(pr)

SpecResolve == InitResolve /\ [][NextResolve]_vars

\* C24: the answer to a digits-only query, mappings loaded, is the PR's own
\* entry when it has one; else, when the PR is an original with backports, the
\* first listed backport that has an entry, or the original with its backport
\* list when none has; else what the individual PR file gives: its data, 'not
\* found' when there is no such file, the loading indicator while it is
\* fetched, the error message when the fetch throws.
C24_NumberSearchResolutionOrder ==
  (sdkMappings.loaded /\ prSearchResults.query.kind = "number") =>
    LET map == sdkMappings.pr_to_releases
        inv == sdkMappings.original_to_backports
        q == prSearchResults.query
        withEntry == IF q.pr \in DOMAIN inv
                       THEN {i \in DOMAIN inv[q.pr] : inv[q.pr][i] \in DOMAIN map}
                       ELSE {}
    IN  IF q.pr \in DOMAIN map
          THEN prSearchResults = Shown("pr", q, q.pr, map[q.pr])
        ELSE IF withEntry # {}
          THEN LET b == inv[q.pr][Min(withEntry)]
               IN  prSearchResults = Shown("pr", q, b, map[b])
        ELSE IF q.pr \in DOMAIN inv
          THEN prSearchResults = Shown("original", q, q.pr, inv[q.pr])
        ELSE \/ prSearchResults = Shown("pr", q, q.pr, PRFileReleases)
             \/ prSearchResults = Shown("not found", q, q.pr, <<>>)
             \/ prSearchResults = Shown("loading", q, q.pr, <<>>)
             \/ prSearchResults = Shown("error", q, q.pr, <<>>)

\* C24 witness: PR 1 has no entry and lists the backports 3 and 2 in that
\* order, both with an entry, and the search for 1 displays PR 3.
C24_Witness ==
  /\ sdkMappings.loaded
  /\ prSearchResults.kind = "pr"
  /\ prSearchResults.query = NumberQuery(1)
  /\ prSearchResults.pr = 3
  /\ 1 \in DOMAIN sdkMappings.original_to_backports
  /\ sdkMappings.original_to_backports[1] = <<3, 2>>
  /\ {2, 3} \subseteq DOMAIN sdkMappings.pr_to_releases

\* C28 as stated: the loading indicator is on display only while the search
\* that put it there waits for its fetch, whose return replaces it, and the
\* button is disabled only that long: no search leaves the indicator behind,
\* the mappings loaded or not.
C28_SearchAlwaysAnswered ==
  /\ prSearchResults.kind = "loading" =>
       \E i \in SearchCalls : calls[i].query = prSearchResults.query
  /\ searchDisabled => SearchCalls # {}

\* C29 as stated: while the modal is not shown, the results and the input are
\* empty.
C29_ClosedModalIsEmpty ==
  ~modalShown => (prSearchResults = NothingShown /\ sdkPRInput = EmptyQuery)

====
